---- MODULE Spec2Model ----
(***************************************************************************)
(* A model of the request pipeline of vss-client: VssClient (client.rs),   *)
(* its four operations, post_request, the retry loop that drives the       *)
(* attempts, and the header providers (FixedHeaders, SigsAuthProvider).    *)
(*                                                                         *)
(* Rust types are modelled as tagged records, so that values of different  *)
(* shapes can be compared: Result<T, E> is Ok(v) / Err(e), Option<T> is    *)
(* Some(v) / None, a HashMap<String, String> is a function from a set of   *)
(* header names to header values.                                          *)
(***************************************************************************)
EXTENDS Integers, Sequences, FiniteSets, TLC

(***************************************************************************)
(* Bounds of the model.                                                    *)
(***************************************************************************)
\* Number of caller tasks that may hold a call on the client at once.
NumCalls == 2
\* Largest attempt limit a retry policy of the model is constructed with.
MaxAttempts == 3
\* Largest reading of the wall clock (seconds since the epoch).
MaxClock == 1
\* Largest number of tokens kept for comparison.
MaxApplied == 2
\* Longest vector of items handed to the key printer.
MaxItems == 3

(***************************************************************************)
(* Program constants.                                                      *)
(***************************************************************************)
APPLICATION_OCTET_STREAM == "application/octet-stream"
CONTENT_TYPE == "content-type"
DEFAULT_TIMEOUT_SECS == 10
MAX_RESPONSE_BODY_SIZE == 1073741824
AUTHORIZATION == "Authorization"
SIGNING_CONSTANT == "VSS Signature Authorizer Signing Salt Constant.................."

(***************************************************************************)
(* Result and Option.  Throughout the module a record is written with its  *)
(* fields in the order in which the field names first occur in the module, *)
(* which is the order TLC keeps them in, so that two workers never reorder *)
(* the fields of one value at the same time.                               *)
(***************************************************************************)
Ok(v) == [tag |-> "Ok", value |-> v]
Err(e) == [tag |-> "Err", error |-> e]
Some(v) == [tag |-> "Some", value |-> v]
None == [tag |-> "None"]
IsOk(r) == r.tag = "Ok"
IsErr(r) == r.tag = "Err"

(***************************************************************************)
(* Header mappings (HashMap<String, String>).  A header value is either a  *)
(* literal string or a token built by build_token.                         *)
(***************************************************************************)
Lit(s) == [kind |-> "literal", text |-> s]
EmptyHeaders == [k \in {} |-> Lit("")]
\* HashMap::insert: the new value replaces a present one.
Insert(h, k, v) == [x \in (DOMAIN h) \cup {k} |-> IF x = k THEN v ELSE h[x]]
\* HashMap::extend: the entries of `more` replace those of `h`.
Extend(h, more) ==
    [x \in (DOMAIN h) \cup (DOMAIN more) |-> IF x \in DOMAIN more THEN more[x] ELSE h[x]]

(***************************************************************************)
(* The wire messages.  A request record is identified by its type and its  *)
(* key; encode_to_vec turns it into protobuf bytes.                        *)
(***************************************************************************)
Ops == {"get_object", "put_object", "delete_object", "list_key_versions"}
Keys == {"k1", "k2"}
RequestType(o) ==
    CASE o = "get_object" -> "GetObjectRequest"
      [] o = "put_object" -> "PutObjectRequest"
      [] o = "delete_object" -> "DeleteObjectRequest"
      [] o = "list_key_versions" -> "ListKeyVersionsRequest"
ResponseType(o) ==
    CASE o = "get_object" -> "GetObjectResponse"
      [] o = "put_object" -> "PutObjectResponse"
      [] o = "delete_object" -> "DeleteObjectResponse"
      [] o = "list_key_versions" -> "ListKeyVersionsResponse"
RequestsOf(o) == {[type |-> RequestType(o), key |-> k] : k \in Keys}
\* prost's Message::encode_to_vec: the bytes of the message.
encode_to_vec(request) == [encoding |-> "protobuf", of |-> request]

(***************************************************************************)
(* Response bodies.  "garbage" does not decode; "empty" decodes to the     *)
(* default message (no value); the others decode to a message that holds   *)
(* the value.                                                              *)
(***************************************************************************)
Payloads == {"garbage", "empty", "v1"}
\* prost's Message::decode into the response type Rs of the operation.
decode(o, payload) ==
    IF payload = "garbage"
    THEN Err([kind |-> "DecodeError"])
    ELSE Ok([value |-> IF payload = "empty" THEN None ELSE Some(payload),
             type |-> ResponseType(o)])

Response(s, p) == [tag |-> "response", payload |-> p, status_code |-> s]
\* What the server may answer: a 2xx with each body, and error statuses with
\* raw payloads (one of them bytes that would decode as a response).
Responses ==
    {Response(200, p) : p \in Payloads}
    \cup {Response(400, "v1"), Response(503, "garbage"), Response(503, "empty")}
\* bitreq's Err of send_async (connection, timeout, size limit).
TransportFailure == [tag |-> "transport_error"]
\* No transport request was made in the attempt.
NoTransport == [tag |-> "not_sent"]

(***************************************************************************)
(* VssError.                                                               *)
(***************************************************************************)
\* VssError::new(status_code, payload): the status-coded application error.
VssErrorNew(status_code, payload) ==
    [kind |-> "StatusError", payload |-> payload, status_code |-> status_code]
AuthError(text) == [kind |-> "AuthError", text |-> text]
InternalServerError(text) == [kind |-> "InternalServerError", text |-> text]
\* From<bitreq::Error> for VssError, applied by `?` on send_async.
FromTransportError == [kind |-> "TransportError"]
ApiViolation ==
    InternalServerError("VSS Server API Violation, expected value in GetObjectResponse but found none")

(***************************************************************************)
(* SigsAuthProvider: the proof-of-key-possession token.                    *)
(***************************************************************************)
SecretKeys == {"sk1", "sk2"}
\* SecretKey::public_key and PublicKey::serialize (33 bytes, compressed).
public_key(secret_key) == [compressed_pubkey_of |-> secret_key]
Sha256(bytes) == [sha256_of |-> bytes]
\* Secp256k1::sign_ecdsa followed by serialize_compact (64 bytes).
sign_ecdsa(digest, secret_key) == [compact_sig_by |-> secret_key, over |-> digest]
hex(bytes) == [hex_of |-> bytes]
\* The decimal ASCII digits of n, as `{now}` formats a u64.
RECURSIVE Digits(_)
Digits(n) == IF n < 10 THEN <<n>> ELSE Digits(n \div 10) \o <<n % 10>>

\* Mutant of build_token: the message signed leaves the timestamp out.
build_token_signs_no_timestamp(secret_key, now_secs) ==
    LET pubkey == public_key(secret_key)
        bytes_to_sign == <<SIGNING_CONSTANT, pubkey>>
        hash == Sha256(bytes_to_sign)
        sig == sign_ecdsa(hash, secret_key)
    IN  [kind |-> "token", chars |-> <<hex(pubkey), hex(sig)>> \o Digits(now_secs)]

\* Mutant of build_token: the clock is read a second time for the suffix,
\* one second after the reading that was signed.
build_token_reads_clock_twice(secret_key, now_secs) ==
    LET pubkey == public_key(secret_key)
        bytes_to_sign == <<SIGNING_CONSTANT, pubkey>> \o Digits(now_secs)
        hash == Sha256(bytes_to_sign)
        sig == sign_ecdsa(hash, secret_key)
    IN  [kind |-> "token", chars |-> <<hex(pubkey), hex(sig)>> \o Digits(now_secs + 1)]

\* The buffer signed is the salt, the 33 bytes of the public key and the
\* digits, one after the other.  The token is a string: the 66 hex
\* characters of the key, the 128 of the signature, then the digits.
build_token(secret_key, now_secs) ==
    LET pubkey == public_key(secret_key)
        bytes_to_sign == <<SIGNING_CONSTANT, pubkey>> \o Digits(now_secs)
        hash == Sha256(bytes_to_sign)
        sig == sign_ecdsa(hash, secret_key)
    IN  [kind |-> "token", chars |-> <<hex(pubkey), hex(sig)>> \o Digits(now_secs)]

(***************************************************************************)
(* Header providers (trait VssHeaderProvider).                             *)
(***************************************************************************)
FixedHeaders(headers) == [kind |-> "FixedHeaders", headers |-> headers]
SigsAuthProvider(key, default_headers) ==
    [kind |-> "SigsAuthProvider", key |-> key, default_headers |-> default_headers]
\* Any other implementation of the trait: it may fail.
CustomProvider == [kind |-> "Custom"]

\* FixedHeaders::get_headers.
FixedGetHeaders(provider) == Ok(provider.headers)

\* Mutant of SigsGetHeaders: entry().or_insert keeps a default Authorization.
SigsGetHeadersKeepsDefault(provider, now_secs) ==
    Ok(IF AUTHORIZATION \in DOMAIN provider.default_headers
       THEN provider.default_headers
       ELSE Insert(provider.default_headers, AUTHORIZATION,
                   build_token(provider.key, now_secs)))

\* SigsAuthProvider::get_headers at clock reading now_secs.
SigsGetHeaders(provider, now_secs) ==
    Ok(Insert(provider.default_headers, AUTHORIZATION,
              build_token(provider.key, now_secs)))

CustomHeaderResults ==
    {Ok(Insert(EmptyHeaders, "x-custom", Lit("c"))), Err("header provider failed")}

\* The results a call of provider.get_headers(request_body) can return.
get_headers(provider, request_body, now_secs) ==
    CASE provider.kind = "FixedHeaders" -> {FixedGetHeaders(provider)}
      [] provider.kind = "SigsAuthProvider" -> {SigsGetHeaders(provider, now_secs)}
      [] provider.kind = "Custom" -> CustomHeaderResults

(***************************************************************************)
(* Retry policies (trait RetryPolicy<E = VssError>): a policy decides,     *)
(* from the number of attempts made and the error of the last one, whether *)
(* another attempt follows.                                                *)
(***************************************************************************)
ErrorClass(e) ==
    CASE e.kind = "AuthError" -> "auth"
      [] e.kind = "TransportError" -> "transport"
      [] e.kind = "DecodeError" -> "decode"
      [] e.kind = "InternalServerError" -> "internal_server_error"
      [] e.kind = "StatusError" ->
            IF e.status_code >= 500 THEN "server_error" ELSE "client_error"
ErrorClasses ==
    {"auth", "transport", "decode", "internal_server_error", "server_error", "client_error"}
\* The classifications of the model: retry transient failures only, or
\* retry every failure.
RetryOnSets == {{"transport", "server_error"}, ErrorClasses}
RetryPolicies ==
    {[retry_on |-> r, max_attempts |-> n] : r \in RetryOnSets, n \in 1..MaxAttempts}
\* RetryPolicy::next_delay(context) is Some(delay).
next_delay(policy, attempts_made_now, err) ==
    /\ attempts_made_now < policy.max_attempts
    /\ ErrorClass(err) \in policy.retry_on

(***************************************************************************)
(* VssClient: what one attempt computes.                                   *)
(***************************************************************************)
\* Mutant of Endpoint: put_object posts to the singular "putObject".
EndpointPutObjectSingular(o) ==
    CASE o = "get_object" -> "getObject"
      [] o = "put_object" -> "putObject"
      [] o = "delete_object" -> "deleteObject"
      [] o = "list_key_versions" -> "listKeyVersions"

\* The endpoint path of each operation.
Endpoint(o) ==
    CASE o = "get_object" -> "getObject"
      [] o = "put_object" -> "putObjects"
      [] o = "delete_object" -> "deleteObject"
      [] o = "list_key_versions" -> "listKeyVersions"
\* format!("{}/<endpoint>", self.base_url)
Url(base, o) == [base |-> base, path |-> Endpoint(o)]
\* Mutant of EnablePipelining: put_object passes true like the others.
PipelineEveryOperation(o) == TRUE

\* The enable_pipelining argument each operation passes to post_request.
EnablePipelining(o) == o # "put_object"

\* Mutant of BuildRequest: with_headers(headers) is left out.
BuildRequestWithoutProviderHeaders(url, request_body, headers, enable_pipelining) ==
    [headers |-> Insert(EmptyHeaders, CONTENT_TYPE, Lit(APPLICATION_OCTET_STREAM)),
     url |-> url,
     body |-> request_body,
     timeout |-> DEFAULT_TIMEOUT_SECS,
     max_body_size |-> Some(MAX_RESPONSE_BODY_SIZE),
     pipelining |-> enable_pipelining]

\* post_request: the bitreq request built from the headers of the provider.
BuildRequest(url, request_body, headers, enable_pipelining) ==
    [headers |-> Extend(Insert(EmptyHeaders, CONTENT_TYPE, Lit(APPLICATION_OCTET_STREAM)),
                        headers),
     url |-> url,
     body |-> request_body,
     timeout |-> DEFAULT_TIMEOUT_SECS,
     max_body_size |-> Some(MAX_RESPONSE_BODY_SIZE),
     pipelining |-> enable_pipelining]

\* Mutant of Classify: the error is built without the response payload.
ClassifyDropsPayload(o, response) ==
    IF response.status_code >= 200 /\ response.status_code < 300
    THEN decode(o, response.payload)
    ELSE Err(VssErrorNew(response.status_code, "empty"))

\* Mutant of Classify: every status below 500 takes the decode path.
ClassifyBelow500(o, response) ==
    IF response.status_code >= 200 /\ response.status_code < 500
    THEN decode(o, response.payload)
    ELSE Err(VssErrorNew(response.status_code, response.payload))

\* Mutant of Classify: the range of success is written 200..=300.
ClassifyUpTo300(o, response) ==
    IF response.status_code >= 200 /\ response.status_code <= 300
    THEN decode(o, response.payload)
    ELSE Err(VssErrorNew(response.status_code, response.payload))

\* post_request: the classification of a transport response.
Classify(o, response) ==
    IF response.status_code >= 200 /\ response.status_code < 300
    THEN decode(o, response.payload)
    ELSE Err(VssErrorNew(response.status_code, response.payload))

\* Mutant of CheckValue: the response is passed on unchecked.
CheckValueSkipped(res) == res

\* Mutant of CheckValue: is_some for is_none.
CheckValueInverted(res) ==
    IF IsOk(res) /\ res.value.value # None THEN Err(ApiViolation) ELSE res

\* get_object: the and_then check of the decoded response.
CheckValue(res) ==
    IF IsOk(res) /\ res.value.value = None THEN Err(ApiViolation) ELSE res

\* The result of the attempt closure of operation o, given post_request's.
AttemptResult(o, res) == IF o = "get_object" THEN CheckValue(res) ELSE res

(***************************************************************************)
(* State.                                                                  *)
(***************************************************************************)
VARIABLES
    base_url,          \* VssClient.base_url
    client,            \* VssClient.client: the results send_async may return
    retry_policy,      \* VssClient.retry_policy
    header_provider,   \* VssClient.header_provider
    now,               \* the wall clock, in seconds since the epoch
    callers,           \* callers[c]: the <<operation, request>> caller c may invoke
    pc,                \* pc[c]: where the call of caller c stands
    op,                \* op[c]: the operation invoked
    request,           \* request[c]: the caller's request record
    attempts_made,     \* attempts_made[c]: the retry loop's count of failed attempts
    attempts_started,  \* attempts_started[c]: attempt closures entered so far
    headers,           \* headers[c]: post_request's local `headers`
    http_request,      \* http_request[c]: the request awaiting its response
    sent,              \* sent[c]: the transport requests issued by the call, in order
    outcomes,          \* outcomes[c]: what each finished attempt received, in order
    result,            \* result[c]: what the call returned
    returned_headers,  \* what a direct call of the provider's get_headers returned
    rand_values,       \* the values rand::random() may return
    request_id,        \* request_id[c]: the correlation identifier of the call
    provider_calls,    \* provider_calls[c]: the get_headers calls of the call, in order
    applied            \* the applications of build_token, of the classification and of fmt

vars ==
    <<base_url, client, retry_policy, header_provider, now, callers, pc, op, request,
      attempts_made, attempts_started, headers, http_request, sent, outcomes, result,
      returned_headers, rand_values, request_id, provider_calls, applied>>

client_fields == <<base_url, client, retry_policy, header_provider>>

Calls == 1..NumCalls
NoOp == "none"
NoRequestId == 0
NoRequest == [tag |-> "none"]
NoHeaders == [tag |-> "none"]
NoResult == [tag |-> "pending"]
NotCalled == [tag |-> "not_called"]

BaseUrls == {"https://vss.example/vss"}
TransportResults == Responses \cup {TransportFailure}
Invocations == {<<o, rq>> : o \in Ops, rq \in UNION {RequestsOf(o2) : o2 \in Ops}}
               \cap UNION {{<<o, rq>> : rq \in RequestsOf(o)} : o \in Ops}

\* The header mappings the model gives to providers.
AppHeaders == Insert(Insert(EmptyHeaders, "x-app", Lit("app")), CONTENT_TYPE, Lit("text/plain"))
DefaultHeaders == Insert(Insert(EmptyHeaders, "x-app", Lit("app")), AUTHORIZATION, Lit("stale"))

\* VssClient::from_client: the provider is FixedHeaders over an empty map.
from_client(url, transport, policy) ==
    [base_url |-> url, client |-> transport, retry_policy |-> policy,
     header_provider |-> FixedHeaders(EmptyHeaders)]
\* VssClient::from_client_and_headers.
from_client_and_headers(url, transport, policy, provider) ==
    [base_url |-> url, client |-> transport, retry_policy |-> policy,
     header_provider |-> provider]

ClientProviders ==
    {FixedHeaders(AppHeaders), SigsAuthProvider("sk1", DefaultHeaders), CustomProvider}
Clients ==
    {from_client(u, TransportResults, p) : u \in BaseUrls, p \in RetryPolicies}
    \cup {from_client_and_headers(u, TransportResults, p, h) :
             u \in BaseUrls, p \in RetryPolicies, h \in ClientProviders}

\* Two of the values a u64 drawn at random can take.
RequestIds == {7, 18446744}
\* Where a single run of each call is followed the identifier is one fixed
\* value; SpecTwoRuns draws it from RequestIds.
OneRequestId == {CHOOSE id \in RequestIds : TRUE}

\* The state of the calls before any is invoked.
InitCalls ==
    /\ now = 0
    /\ pc = [c \in Calls |-> "idle"]
    /\ op = [c \in Calls |-> NoOp]
    /\ request = [c \in Calls |-> NoRequest]
    /\ attempts_made = [c \in Calls |-> 0]
    /\ attempts_started = [c \in Calls |-> 0]
    /\ headers = [c \in Calls |-> NoHeaders]
    /\ http_request = [c \in Calls |-> NoRequest]
    /\ sent = [c \in Calls |-> <<>>]
    /\ outcomes = [c \in Calls |-> <<>>]
    /\ result = [c \in Calls |-> NoResult]
    /\ returned_headers = NotCalled
    /\ request_id = [c \in Calls |-> NoRequestId]
    /\ provider_calls = [c \in Calls |-> <<>>]
    /\ applied = {}

InitClient(v) ==
    /\ base_url = v.base_url
    /\ client = v.client
    /\ retry_policy = v.retry_policy
    /\ header_provider = v.header_provider

\* One caller uses a client built by either constructor.
Init ==
    /\ \E v \in Clients : InitClient(v)
    /\ callers = [c \in Calls |-> IF c = 1 THEN Invocations ELSE {}]
    /\ rand_values = OneRequestId
    /\ InitCalls

(***************************************************************************)
(* The steps of a call.                                                    *)
(***************************************************************************)
\* Mutant of StartAttempt: the closure enters post_request twice at once.
StartAttemptTwice(c) ==
    /\ pc' = [pc EXCEPT ![c] = "get_headers"]
    /\ attempts_started' = [attempts_started EXCEPT ![c] = @ + 2]

\* The attempt closure is entered: post_request encodes the request and
\* calls the provider's get_headers, which it awaits.
StartAttempt(c) ==
    /\ pc' = [pc EXCEPT ![c] = "get_headers"]
    /\ attempts_started' = [attempts_started EXCEPT ![c] = @ + 1]

\* retry(operation, policy) begins: the first attempt starts at once.
CallOperation(c, o, rq) ==
    /\ pc[c] = "idle"
    /\ <<o, rq>> \in callers[c]
    /\ op' = [op EXCEPT ![c] = o]
    /\ request' = [request EXCEPT ![c] = rq]
    /\ \E id \in rand_values : request_id' = [request_id EXCEPT ![c] = id]
    /\ StartAttempt(c)
    /\ UNCHANGED <<client_fields, now, callers, attempts_made, headers, http_request,
                   sent, outcomes, result, returned_headers,
                   rand_values, provider_calls, applied>>

get_object(c, rq) == CallOperation(c, "get_object", rq)
put_object(c, rq) == CallOperation(c, "put_object", rq)
delete_object(c, rq) == CallOperation(c, "delete_object", rq)
list_key_versions(c, rq) == CallOperation(c, "list_key_versions", rq)

\* The retry loop receives the result of an attempt: Ok is returned; on Err
\* the policy decides between a delay followed by another attempt and
\* returning the error.
RetryLoop(c, res, outcome) ==
    /\ outcomes' = [outcomes EXCEPT ![c] = Append(@, outcome)]
    /\ IF IsOk(res)
       THEN /\ result' = [result EXCEPT ![c] = res]
            /\ pc' = [pc EXCEPT ![c] = "returned"]
            /\ UNCHANGED attempts_made
       ELSE /\ attempts_made' = [attempts_made EXCEPT ![c] = @ + 1]
            /\ IF next_delay(retry_policy, attempts_made[c] + 1, res.error)
               THEN /\ pc' = [pc EXCEPT ![c] = "sleep"]
                    /\ UNCHANGED result
               ELSE /\ pc' = [pc EXCEPT ![c] = "returned"]
                    /\ result' = [result EXCEPT ![c] = res]

\* Mutant of SendRequest: the body is taken from a buffer the calls share,
\* which holds the bytes of the call that encoded last.
SendRequestSharedBuffer(c, hdrs) ==
    LET others == {d \in Calls : d # c /\ pc[d] # "idle"}
        body == IF others = {} THEN encode_to_vec(request[c])
                ELSE encode_to_vec(request[CHOOSE d \in others : TRUE])
        rq == BuildRequest(Url(base_url, op[c]), body, hdrs, EnablePipelining(op[c]))
    IN  /\ headers' = [headers EXCEPT ![c] = hdrs]
        /\ http_request' = [http_request EXCEPT ![c] = rq]
        /\ sent' = [sent EXCEPT ![c] = Append(@, rq)]
        /\ pc' = [pc EXCEPT ![c] = "send_async"]

\* Mutant of SendRequest: the headers of the first attempt are kept and used
\* again by the attempts that follow.
SendRequestCachedHeaders(c, hdrs) ==
    LET used == IF headers[c] # NoHeaders THEN headers[c] ELSE hdrs
        rq == BuildRequest(Url(base_url, op[c]), encode_to_vec(request[c]), used,
                           EnablePipelining(op[c]))
    IN  /\ headers' = [headers EXCEPT ![c] = used]
        /\ http_request' = [http_request EXCEPT ![c] = rq]
        /\ sent' = [sent EXCEPT ![c] = Append(@, rq)]
        /\ pc' = [pc EXCEPT ![c] = "send_async"]

\* Mutant of SendRequest: the correlation identifier is sent as a header.
SendRequestWithRequestId(c, hdrs) ==
    LET tagged == Insert(hdrs, "x-request-id", [kind |-> "request_id", id |-> request_id[c]])
        rq == BuildRequest(Url(base_url, op[c]), encode_to_vec(request[c]), tagged,
                           EnablePipelining(op[c]))
    IN  /\ headers' = [headers EXCEPT ![c] = hdrs]
        /\ http_request' = [http_request EXCEPT ![c] = rq]
        /\ sent' = [sent EXCEPT ![c] = Append(@, rq)]
        /\ pc' = [pc EXCEPT ![c] = "send_async"]

\* post_request: the provider returned the headers; the request is built
\* and handed to send_async, which is awaited.
SendRequest(c, hdrs) ==
    LET rq == BuildRequest(Url(base_url, op[c]), encode_to_vec(request[c]), hdrs,
                           EnablePipelining(op[c]))
    IN  /\ headers' = [headers EXCEPT ![c] = hdrs]
        /\ http_request' = [http_request EXCEPT ![c] = rq]
        /\ sent' = [sent EXCEPT ![c] = Append(@, rq)]
        /\ pc' = [pc EXCEPT ![c] = "send_async"]

\* The call of get_headers that has just returned r, with its argument and
\* the clock when it returned.
ProviderCalled(c, r) ==
    provider_calls' = [provider_calls EXCEPT ![c] =
        Append(@, [request_body |-> encode_to_vec(request[c]), result |-> r, at |-> now])]

HeadersReturned(c) ==
    /\ pc[c] = "get_headers"
    /\ \E r \in get_headers(header_provider, encode_to_vec(request[c]), now) :
          /\ IsOk(r)
          /\ SendRequest(c, r.value)
          /\ ProviderCalled(c, r)
    /\ UNCHANGED <<client_fields, now, callers, op, request, attempts_made,
                   attempts_started, outcomes, result, returned_headers,
                   rand_values, request_id, applied>>

\* Mutant of HeadersFailed: the provider's failure is dropped
\* (unwrap_or_default) and the request goes out without its headers.
HeadersFailedSendsAnyway(c) ==
    /\ pc[c] = "get_headers"
    /\ \E r \in get_headers(header_provider, encode_to_vec(request[c]), now) :
          /\ IsErr(r)
          /\ SendRequest(c, EmptyHeaders)
          /\ ProviderCalled(c, r)
    /\ UNCHANGED <<client_fields, now, callers, op, request, attempts_made,
                   attempts_started, outcomes, result, returned_headers,
                   rand_values, request_id, applied>>

\* post_request: the provider failed; map_err makes it an AuthError and `?`
\* ends the attempt.
HeadersFailed(c) ==
    /\ pc[c] = "get_headers"
    /\ \E r \in get_headers(header_provider, encode_to_vec(request[c]), now) :
          /\ IsErr(r)
          /\ RetryLoop(c, Err(AuthError(r.error)), [headers |-> r, transport |-> NoTransport])
          /\ ProviderCalled(c, r)
    /\ UNCHANGED <<client_fields, now, callers, op, request, attempts_started, headers,
                   http_request, sent, returned_headers,
                   rand_values, request_id, applied>>

\* post_request: send_async returned a response, which is classified.
ResponseReceived(c, response) ==
    /\ pc[c] = "send_async"
    /\ response \in client
    /\ response.tag = "response"
    /\ RetryLoop(c, AttemptResult(op[c], Classify(op[c], response)),
                 [headers |-> Ok(headers[c]), transport |-> response])
    /\ http_request' = [http_request EXCEPT ![c] = NoRequest]
    /\ UNCHANGED <<client_fields, now, callers, op, request, attempts_started, headers,
                   sent, returned_headers,
                   rand_values, request_id, provider_calls, applied>>

\* post_request: send_async returned an error, which `?` converts.
SendFailed(c) ==
    /\ pc[c] = "send_async"
    /\ TransportFailure \in client
    /\ RetryLoop(c, Err(FromTransportError),
                 [headers |-> Ok(headers[c]), transport |-> TransportFailure])
    /\ http_request' = [http_request EXCEPT ![c] = NoRequest]
    /\ UNCHANGED <<client_fields, now, callers, op, request, attempts_started, headers,
                   sent, returned_headers,
                   rand_values, request_id, provider_calls, applied>>

\* The delay of the policy has elapsed: the retry loop runs the closure again.
DelayElapsed(c) ==
    /\ pc[c] = "sleep"
    /\ StartAttempt(c)
    /\ UNCHANGED <<client_fields, now, callers, op, request, attempts_made, headers,
                   http_request, sent, outcomes, result, returned_headers,
                   rand_values, request_id, provider_calls, applied>>

\* The wall clock advances; only build_token reads it.
Tick ==
    /\ header_provider.kind = "SigsAuthProvider"
    /\ now < MaxClock
    /\ now' = now + 1
    /\ UNCHANGED <<client_fields, callers, pc, op, request, attempts_made,
                   attempts_started, headers, http_request, sent, outcomes, result,
                   returned_headers,
                   rand_values, request_id, provider_calls, applied>>

\* The steps of the calls on the client.
CallSteps ==
    \/ \E c \in Calls : \E rq \in RequestsOf("get_object") : get_object(c, rq)
    \/ \E c \in Calls : \E rq \in RequestsOf("put_object") : put_object(c, rq)
    \/ \E c \in Calls : \E rq \in RequestsOf("delete_object") : delete_object(c, rq)
    \/ \E c \in Calls : \E rq \in RequestsOf("list_key_versions") : list_key_versions(c, rq)
    \/ \E c \in Calls : HeadersReturned(c)
    \/ \E c \in Calls : HeadersFailed(c)
    \/ \E c \in Calls : \E response \in Responses : ResponseReceived(c, response)
    \/ \E c \in Calls : SendFailed(c)
    \/ \E c \in Calls : DelayElapsed(c)

Next == CallSteps \/ Tick

Spec == Init /\ [][Next]_vars

(***************************************************************************)
(* Concurrent callers: every caller holds the one client (or a clone of    *)
(* it, which shares the transport and the provider) and their calls        *)
(* interleave at the awaits.  The transport answers from a small set and   *)
(* the policies allow two attempts, which keeps the interleavings of       *)
(* NumCalls calls enumerable.                                              *)
(***************************************************************************)
ConcurrentTransportResults ==
    {Response(200, "v1"), Response(400, "v1"), TransportFailure}
ConcurrentInvocations ==
    {<<"get_object", [type |-> RequestType("get_object"), key |-> "k1"]>>,
     <<"put_object", [type |-> RequestType("put_object"), key |-> "k2"]>>}
ConcurrentClients ==
    {from_client_and_headers(u, ConcurrentTransportResults, p, h) :
        u \in BaseUrls,
        p \in {q \in RetryPolicies : q.max_attempts <= 2},
        h \in {FixedHeaders(AppHeaders), CustomProvider}}

InitConcurrent ==
    /\ \E v \in ConcurrentClients : InitClient(v)
    /\ callers = [c \in Calls |-> ConcurrentInvocations]
    /\ rand_values = OneRequestId
    /\ InitCalls

SpecConcurrent == InitConcurrent /\ [][CallSteps]_vars

(***************************************************************************)
(* The signature provider on its own: get_headers is called directly, on   *)
(* any request bytes, while the clock advances.                            *)
(***************************************************************************)
HeaderNames == {AUTHORIZATION, "x-app"}
HeaderValues == {Lit("stale"), Lit("app")}
\* Every mapping from a set of the header names to the header values.
HeaderMaps == UNION {[names -> HeaderValues] : names \in SUBSET HeaderNames}
SigsProviders == {SigsAuthProvider(k, d) : k \in SecretKeys, d \in HeaderMaps}
RequestBodies == {encode_to_vec(rq) : rq \in RequestsOf("get_object")}

ProviderClients ==
    {from_client_and_headers(u, TransportResults, p, h) :
        u \in BaseUrls, p \in RetryPolicies, h \in SigsProviders}

InitProvider ==
    /\ \E v \in ProviderClients : InitClient(v)
    /\ callers = [c \in Calls |-> {}]
    /\ rand_values = RequestIds
    /\ InitCalls

\* provider.get_headers(request_body) is called and returns.
CallGetHeaders(request_body) ==
    /\ \E r \in get_headers(header_provider, request_body, now) :
          returned_headers' = [request |-> request_body, result |-> r, at |-> now]
    /\ UNCHANGED <<client_fields, now, callers, pc, op, request, attempts_made,
                   attempts_started, headers, http_request, sent, outcomes, result,
                   rand_values, request_id, provider_calls, applied>>

ProviderSteps ==
    \/ \E request_body \in RequestBodies : CallGetHeaders(request_body)
    \/ Tick

ProviderSpec == InitProvider /\ [][ProviderSteps]_vars

(***************************************************************************)
(* Properties.  The vocabulary below reads the logs of a call; it is       *)
(* written from the statements, not from the operators above.              *)
(***************************************************************************)
Last(seq) == seq[Len(seq)]
Returned(c) == pc[c] = "returned"
IsResponse(outcome) == outcome.transport.tag = "response"
Is2xx(outcome) ==
    IsResponse(outcome) /\ outcome.transport.status_code \in 200..299
HasStatus(outcome, s) == IsResponse(outcome) /\ outcome.transport.status_code = s
Decodable(outcome) == outcome.transport.payload # "garbage"
CarriesValue(outcome) == outcome.transport.payload \notin {"garbage", "empty"}
\* A 2xx response with a decodable body that lacks a value.
MissingValue(outcome) == Is2xx(outcome) /\ Decodable(outcome) /\ ~CarriesValue(outcome)
\* A 2xx response with a decodable body that holds a value.
GoodValue(outcome) == Is2xx(outcome) /\ Decodable(outcome) /\ CarriesValue(outcome)
HeaderFailure(outcome) == outcome.headers.tag = "Err"
\* The number of attempts among the first n of call c that reached the transport.
ReachedTransport(c, n) ==
    Cardinality({i \in 1..n : ~HeaderFailure(outcomes[c][i])})
ProtocolViolation ==
    [tag |-> "Err",
     error |-> [kind |-> "InternalServerError",
                text |-> "VSS Server API Violation, expected value in GetObjectResponse but found none"]]

\* C1: a get_object call never returns Ok with a response whose value is
\* absent; when the last attempt of the call received a 2xx response with a
\* decodable body lacking a value, the call returns the protocol-violation
\* error.
C1_GetNeverReturnsMissingValue ==
    \A c \in Calls :
        (op[c] = "get_object" /\ Returned(c)) =>
            /\ result[c].tag = "Ok" => result[c].value.value.tag = "Some"
            /\ MissingValue(Last(outcomes[c])) => result[c] = ProtocolViolation

C1_Witness ==
    \E c \in Calls :
        /\ op[c] = "get_object" /\ Returned(c)
        /\ MissingValue(Last(outcomes[c]))
        /\ result[c] = ProtocolViolation

\* C2: every transport request of put_object has pipelining disabled and
\* every transport request of get_object, delete_object and
\* list_key_versions has it enabled, on the first attempt and on every retry.
C2_PipeliningFixedPerOperation ==
    \A c \in Calls : \A i \in 1..Len(sent[c]) :
        /\ op[c] = "put_object" => sent[c][i].pipelining = FALSE
        /\ op[c] \in {"get_object", "delete_object", "list_key_versions"}
              => sent[c][i].pipelining = TRUE

C2_Witness ==
    \E c \in Calls :
        /\ op[c] = "put_object"
        /\ Len(sent[c]) = MaxAttempts
        /\ \A i \in 1..Len(sent[c]) : sent[c][i].pipelining = FALSE

\* C3: a get_object attempt that received a 2xx response missing its value
\* is the last attempt of its call: no further header-provider invocation
\* and no further transport request follow it, and the call returns the
\* protocol-violation error, whatever the retry policy.
C3_MissingValueIsTerminal ==
    \A c \in Calls : \A i \in 1..Len(outcomes[c]) :
        (op[c] = "get_object" /\ MissingValue(outcomes[c][i])) =>
            /\ attempts_started[c] = i
            /\ Len(sent[c]) = ReachedTransport(c, i)
            /\ Returned(c) => result[c] = ProtocolViolation

\* What the last attempt of a call must have produced, by its outcome.
ExpectedError(o, outcome) ==
    IF HeaderFailure(outcome)
    THEN [kind |-> "AuthError", text |-> outcome.headers.error]
    ELSE IF outcome.transport.tag = "transport_error"
    THEN [kind |-> "TransportError"]
    ELSE IF ~Is2xx(outcome)
    THEN [kind |-> "StatusError",
          payload |-> outcome.transport.payload,
          status_code |-> outcome.transport.status_code]
    ELSE IF ~Decodable(outcome)
    THEN [kind |-> "DecodeError"]
    ELSE ProtocolViolation.error

\* C4: a call returns either the decoded response of an attempt that
\* succeeded or exactly the error of its last attempt; a last attempt that
\* received a non-2xx status yields the error built from that attempt's
\* status code and raw payload.
C4_LastErrorSurfacesUnchanged ==
    \A c \in Calls :
        Returned(c) =>
            LET last == Last(outcomes[c])
            IN  /\ result[c].tag \in {"Ok", "Err"}
                /\ result[c].tag = "Ok" =>
                      /\ Is2xx(last) /\ Decodable(last)
                      /\ op[c] = "get_object" => CarriesValue(last)
                      /\ result[c].value.type = ResponseType(op[c])
                      /\ result[c].value.value =
                            IF CarriesValue(last)
                            THEN [tag |-> "Some", value |-> last.transport.payload]
                            ELSE [tag |-> "None"]
                /\ result[c].tag = "Err" => result[c].error = ExpectedError(op[c], last)
                /\ (IsResponse(last) /\ ~Is2xx(last)) =>
                      /\ result[c].tag = "Err"
                      /\ result[c].error.status_code = last.transport.status_code
                      /\ result[c].error.payload = last.transport.payload

C4_Witness ==
    \E c \in Calls :
        /\ Returned(c)
        /\ Len(outcomes[c]) = 2
        /\ HasStatus(outcomes[c][1], 503) /\ HasStatus(outcomes[c][2], 503)
        /\ outcomes[c][1].transport.payload # outcomes[c][2].transport.payload
        /\ result[c].tag = "Err"
        /\ result[c].error.payload = outcomes[c][2].transport.payload

\* C5: the attempts of a call are strictly sequential: an attempt starts
\* only when every earlier attempt has its outcome, at most one attempt and
\* at most one transport request of a call are in flight at any moment.
C5_AttemptsSequential ==
    \A c \in Calls :
        /\ attempts_started[c] - Len(outcomes[c]) \in {0, 1}
        /\ attempts_started[c] - Len(outcomes[c]) = 1
              <=> pc[c] \in {"get_headers", "send_async"}
        /\ http_request[c] # NoRequest <=> pc[c] = "send_async"
        /\ Len(sent[c]) = ReachedTransport(c, Len(outcomes[c]))
                             + (IF pc[c] = "send_async" THEN 1 ELSE 0)

C5_Witness ==
    \E c \in Calls :
        /\ attempts_started[c] = MaxAttempts
        /\ Len(outcomes[c]) = MaxAttempts - 1
        /\ pc[c] = "send_async"

\* C6 as stated: with the static header provider every transport request
\* carries exactly the fixed header mapping given at construction.
C6_RequestCarriesExactlyFixedHeaders ==
    header_provider.kind = "FixedHeaders" =>
        \A c \in Calls : \A i \in 1..Len(sent[c]) :
            sent[c][i].headers = header_provider.headers

\* C6 (amended): with the static header provider the headers the client
\* sets on every transport request, first attempt and retries alike, are
\* the entries of the fixed mapping, unchanged, and besides them only
\* content-type: application/octet-stream (which a fixed content-type entry
\* replaces), for every request content and every operation.
C6_RequestCarriesFixedHeadersAndContentType ==
    header_provider.kind = "FixedHeaders" =>
        \A c \in Calls : \A i \in 1..Len(sent[c]) :
            LET fixed == header_provider.headers
                got == sent[c][i].headers
            IN  /\ DOMAIN got = (DOMAIN fixed) \cup {"content-type"}
                /\ \A k \in DOMAIN fixed : got[k] = fixed[k]
                /\ "content-type" \notin DOMAIN fixed =>
                      got["content-type"] =
                          [kind |-> "literal", text |-> "application/octet-stream"]

C6_Witness ==
    /\ header_provider.kind = "FixedHeaders"
    /\ DOMAIN header_provider.headers # {}
    /\ \E c \in Calls :
          /\ Len(sent[c]) = MaxAttempts
          /\ \A i \in 1..Len(sent[c]) :
                \A k \in DOMAIN header_provider.headers :
                    sent[c][i].headers[k] = header_provider.headers[k]

\* The response a get_object call decodes from a good outcome.
DecodedGet(outcome) ==
    [tag |-> "Ok",
     value |-> [value |-> [tag |-> "Some", value |-> outcome.transport.payload],
                type |-> "GetObjectResponse"]]
\* Attempt k of call c is the first to receive a 2xx response with a value.
FirstGood(c, k) ==
    /\ k \in 1..Len(outcomes[c])
    /\ GoodValue(outcomes[c][k])
    /\ \A j \in 1..(k - 1) : ~GoodValue(outcomes[c][j])
\* The policy retries status 503 and allows at least three attempts.
Retries503ThreeTimes ==
    /\ "server_error" \in retry_policy.retry_on
    /\ retry_policy.max_attempts >= 3
\* 503 on the first two attempts, then 200 with a value.
Scenario503Twice(c) ==
    /\ op[c] = "get_object"
    /\ Len(outcomes[c]) = 3
    /\ HasStatus(outcomes[c][1], 503) /\ HasStatus(outcomes[c][2], 503)
    /\ HasStatus(outcomes[c][3], 200) /\ GoodValue(outcomes[c][3])
C7_Scenario ==
    \A c \in Calls :
        /\ Scenario503Twice(c) =>
              /\ Returned(c)
              /\ Len(sent[c]) = 3
              /\ attempts_started[c] = 3
              /\ result[c] = DecodedGet(outcomes[c][3])
              /\ result[c] # ProtocolViolation
        \* under such a policy the call goes on after each 503
        /\ ( /\ op[c] = "get_object" /\ Retries503ThreeTimes
             /\ Len(outcomes[c]) \in {1, 2}
             /\ \A i \in 1..Len(outcomes[c]) : HasStatus(outcomes[c][i], 503) )
              => ~Returned(c)

\* C7 as stated: if attempt k of a get_object call is the first to receive
\* a 2xx response with a value, the call returns Ok with that response
\* after exactly k transport requests.
C7_OkAfterExactlyKRequests ==
    /\ C7_Scenario
    /\ \A c \in Calls : \A k \in 1..Len(outcomes[c]) :
          (op[c] = "get_object" /\ FirstGood(c, k)) =>
              /\ Returned(c)
              /\ result[c] = DecodedGet(outcomes[c][k])
              /\ Len(sent[c]) = k

\* C7 (amended): the 503, 503, 200 scenario issues exactly three transport
\* requests and returns the value of the third response; in general, if
\* attempt k is the first to receive a 2xx response with a value, the call
\* returns Ok with that response after exactly k attempts, having issued
\* one transport request in each attempt whose header provider succeeded
\* (k requests when no earlier attempt failed in the header provider).
C7_OkAfterKAttempts ==
    /\ C7_Scenario
    /\ \A c \in Calls : \A k \in 1..Len(outcomes[c]) :
          (op[c] = "get_object" /\ FirstGood(c, k)) =>
              /\ Returned(c)
              /\ result[c] = DecodedGet(outcomes[c][k])
              /\ k = Len(outcomes[c])
              /\ attempts_started[c] = k
              /\ Len(sent[c]) = ReachedTransport(c, k)
              /\ (\A j \in 1..k : ~HeaderFailure(outcomes[c][j])) => Len(sent[c]) = k

C7_Witness ==
    \E c \in Calls :
        /\ Scenario503Twice(c)
        /\ Retries503ThreeTimes
        /\ Len(sent[c]) = 3
        /\ result[c] = DecodedGet(outcomes[c][3])

\* C8: a put_object call whose first attempt receives status 400 with a
\* payload, under a policy that classifies 4xx as terminal, returns at
\* once: one transport request, no retry, and the error carries status
\* code 400 and the raw payload of that response.
C8_Put400FailsAtOnce ==
    \A c \in Calls :
        ( /\ op[c] = "put_object"
          /\ Len(outcomes[c]) >= 1
          /\ HasStatus(outcomes[c][1], 400)
          /\ "client_error" \notin retry_policy.retry_on ) =>
            /\ Returned(c)
            /\ Len(outcomes[c]) = 1
            /\ attempts_started[c] = 1
            /\ Len(sent[c]) = 1
            /\ result[c].tag = "Err"
            /\ result[c].error.status_code = 400
            /\ result[c].error.payload = outcomes[c][1].transport.payload

C8_Witness ==
    \E c \in Calls :
        /\ op[c] = "put_object"
        /\ retry_policy.max_attempts > 1
        /\ "client_error" \notin retry_policy.retry_on
        /\ Len(outcomes[c]) = 1
        /\ HasStatus(outcomes[c][1], 400)
        /\ Returned(c)
        /\ result[c].error.status_code = 400

(***************************************************************************)
(* A call run alone: what operation o on request rq produces when its      *)
(* attempts receive the outcomes outs, one after the other, with no other  *)
(* call on the client.  made is the number of failed attempts so far.      *)
(***************************************************************************)
AloneRequest(o, rq, outcome) ==
    BuildRequest(Url(base_url, o), encode_to_vec(rq), outcome.headers.value,
                 EnablePipelining(o))
AloneResult(o, outcome) ==
    IF HeaderFailure(outcome) THEN Err(AuthError(outcome.headers.error))
    ELSE IF outcome.transport.tag = "transport_error" THEN Err(FromTransportError)
    ELSE AttemptResult(o, Classify(o, outcome.transport))
RECURSIVE RunAlone(_, _, _, _)
RunAlone(o, rq, outs, made) ==
    IF outs = <<>>
    THEN [sent |-> <<>>, result |-> NoResult, made |-> made, returned |-> FALSE]
    ELSE LET outcome == Head(outs)
             issued == IF HeaderFailure(outcome) THEN <<>>
                       ELSE <<AloneRequest(o, rq, outcome)>>
             res == AloneResult(o, outcome)
         IN  IF IsOk(res)
             THEN [sent |-> issued, result |-> res, made |-> made, returned |-> TRUE]
             ELSE IF ~next_delay(retry_policy, made + 1, res.error)
             THEN [sent |-> issued, result |-> res, made |-> made + 1, returned |-> TRUE]
             ELSE LET rest == RunAlone(o, rq, Tail(outs), made + 1)
                  IN  [rest EXCEPT !.sent = issued \o @]

\* The call of caller c stands where a call run alone on the same request
\* and the same outcomes stands.
AsWhenAlone(c) ==
    LET alone == RunAlone(op[c], request[c], outcomes[c], 0)
        in_flight == IF pc[c] = "send_async" THEN <<http_request[c]>> ELSE <<>>
    IN  /\ Returned(c) <=> alone.returned
        /\ result[c] = alone.result
        /\ attempts_made[c] = alone.made
        /\ sent[c] = alone.sent \o in_flight
        /\ pc[c] = "send_async" =>
              http_request[c] =
                  [headers |-> Extend(Insert(EmptyHeaders, CONTENT_TYPE,
                                             Lit(APPLICATION_OCTET_STREAM)), headers[c]),
                   url |-> [base |-> base_url, path |-> Endpoint(op[c])],
                   body |-> encode_to_vec(request[c]),
                   timeout |-> DEFAULT_TIMEOUT_SECS,
                   max_body_size |-> Some(MAX_RESPONSE_BODY_SIZE),
                   pipelining |-> op[c] # "put_object"]

\* C9: calls in flight together on one client do not interfere: under every
\* interleaving each call's attempt count, transmitted requests and result
\* are those of the call run alone on its own request and the responses to
\* its own attempts, and no step changes the client's base URL or header
\* provider.
C9_CallsDoNotInterfere ==
    /\ [](\A c \in Calls : pc[c] # "idle" => AsWhenAlone(c))
    /\ [][base_url' = base_url /\ header_provider' = header_provider]_vars

\* Two calls are under way at once, each in its second attempt, one
\* awaiting its response and the other its headers, with different
\* histories.
C9_Witness ==
    \E c, d \in Calls :
        /\ c # d
        /\ pc[c] = "send_async" /\ Len(outcomes[c]) = 1
        /\ pc[d] = "get_headers" /\ Len(outcomes[d]) = 1
        /\ outcomes[c] # outcomes[d]
        /\ op[c] # op[d]
        /\ AsWhenAlone(c) /\ AsWhenAlone(d)

\* C10: for every set of default headers, get_headers of the signature
\* provider returns a mapping in which Authorization is the token computed
\* at the call, never a default Authorization value, every other default
\* header is unchanged and there is no further entry; the provider's
\* default headers are unchanged by the call.
C10_AuthorizationAlwaysFresh ==
    /\ []( returned_headers # NotCalled =>
            LET defaults == header_provider.default_headers
                got == returned_headers.result.value
            IN  /\ returned_headers.result.tag = "Ok"
                /\ DOMAIN got = (DOMAIN defaults) \cup {"Authorization"}
                /\ got["Authorization"] =
                      build_token(header_provider.key, returned_headers.at)
                /\ "Authorization" \in DOMAIN defaults =>
                      got["Authorization"] # defaults["Authorization"]
                /\ \A k \in (DOMAIN defaults) \ {"Authorization"} : got[k] = defaults[k] )
    /\ [][header_provider' = header_provider]_vars

\* The provider was given a default Authorization header and another
\* header, and has returned at a later clock reading.
C10_Witness ==
    /\ returned_headers # NotCalled
    /\ returned_headers.at > 0
    /\ DOMAIN header_provider.default_headers = {"Authorization", "x-app"}
    /\ returned_headers.result.value["Authorization"].kind = "token"
    /\ returned_headers.result.value["x-app"] = header_provider.default_headers["x-app"]

(***************************************************************************)
(* build_token on its own: it is applied to any key at the readings the    *)
(* clock takes, and the tokens built are kept.  The client plays no part.  *)
(***************************************************************************)
ClockReadings == {0, 9, 10, 99, 1700000000}

InitPure ==
    /\ InitClient(CHOOSE v \in Clients : TRUE)
    /\ callers = [c \in Calls |-> {}]
    /\ rand_values = RequestIds
    /\ InitCalls

\* build_token(secret_key), which reads the clock.
BuildToken(secret_key) ==
    /\ Cardinality(applied) < MaxApplied
    /\ applied' = applied \cup
          {[secret_key |-> secret_key,
            now |-> now,
            fn |-> "build_token",
            token |-> build_token(secret_key, now)]}
    /\ UNCHANGED <<client_fields, now, callers, pc, op, request, attempts_made,
                   attempts_started, headers, http_request, sent, outcomes, result,
                   returned_headers, rand_values, request_id, provider_calls>>

\* The wall clock moves on to a later reading.
ClockAdvances(t) ==
    /\ t > now
    /\ now' = t
    /\ UNCHANGED <<client_fields, callers, pc, op, request, attempts_made,
                   attempts_started, headers, http_request, sent, outcomes, result,
                   returned_headers, rand_values, request_id, provider_calls, applied>>

TokenSteps ==
    \/ \E k \in SecretKeys : BuildToken(k)
    \/ \E t \in ClockReadings : ClockAdvances(t)

TokenSpec == InitPure /\ [][TokenSteps]_vars

\* The tokens built so far, and the three parts of a token's string, which
\* are told apart by the fixed widths of the first two.
TokensBuilt == {a \in applied : a.fn = "build_token"}
PubkeyPart(token) == token.chars[1]
SigPart(token) == token.chars[2]
TimestampPart(token) == SubSeq(token.chars, 3, Len(token.chars))
\* The bytes under the signature carried by a token, and who signed them.
SignedBytes(token) == SigPart(token).hex_of.over.sha256_of
Signer(token) == SigPart(token).hex_of.compact_sig_by
\* The number that a sequence of decimal digits writes.
RECURSIVE DecimalValue(_)
DecimalValue(digits) ==
    IF digits = <<>> THEN 0
    ELSE 10 * DecimalValue(SubSeq(digits, 1, Len(digits) - 1)) + digits[Len(digits)]
IsDecimalOf(digits, n) ==
    /\ Len(digits) >= 1
    /\ \A i \in 1..Len(digits) : digits[i] \in 0..9
    /\ Len(digits) > 1 => digits[1] # 0
    /\ DecimalValue(digits) = n

\* C11: for every key, two tokens built for it at different readings of the
\* clock differ in their timestamp suffix and in their signature part and
\* carry the same public-key prefix, and the signature part of each is the
\* signature by that key over the hash of the salt, the public key and the
\* token's own timestamp digits.
C11_TokensOfDifferentTimesDiffer ==
    \A a, b \in TokensBuilt :
        (a.secret_key = b.secret_key /\ a.now # b.now) =>
            /\ TimestampPart(a.token) # TimestampPart(b.token)
            /\ SigPart(a.token) # SigPart(b.token)
            /\ PubkeyPart(a.token) = PubkeyPart(b.token)
            /\ \A x \in {a, b} :
                  SigPart(x.token) =
                      hex(sign_ecdsa(Sha256(<<SIGNING_CONSTANT, public_key(x.secret_key)>>
                                             \o TimestampPart(x.token)),
                                     x.secret_key))

C11_Witness ==
    \E a, b \in TokensBuilt :
        a.secret_key = b.secret_key /\ a.now = 9 /\ b.now = 10

\* C18: a token is built from one reading of the clock: the timestamp
\* digits under the signature are the digits that end the token, they write
\* the reading in decimal, and the token is the hex of the public key, then
\* the hex of the compact signature by the key, then those digits, with
\* nothing in between.
C18_OneClockReadingPerToken ==
    \A a \in TokensBuilt :
        LET timestamp == TimestampPart(a.token)
            signed == SignedBytes(a.token)
        IN  /\ SubSeq(signed, 3, Len(signed)) = timestamp
            /\ IsDecimalOf(timestamp, a.now)
            /\ PubkeyPart(a.token) = hex(public_key(a.secret_key))
            /\ Signer(a.token) = a.secret_key
            /\ SubSeq(signed, 1, 2) = <<SIGNING_CONSTANT, public_key(a.secret_key)>>
            /\ Len(a.token.chars) = 2 + Len(Digits(a.now))

C18_Witness ==
    \E a \in TokensBuilt : a.now = 1700000000 /\ Len(TimestampPart(a.token)) = 10

\* C12: when the header provider fails in an attempt, the attempt ends at
\* once without a transport request, its outcome is the AuthError carrying
\* the provider's error text, and another attempt follows exactly when the
\* retry policy accepts that error.
C12_ProviderFailureIsAuthError ==
    \A c \in Calls : \A i \in 1..Len(provider_calls[c]) :
        LET called == provider_calls[c][i]
            auth_error == AuthError(called.result.error)
            ended_call == Len(outcomes[c]) = i /\ Returned(c)
        IN  IsErr(called.result) =>
              /\ Len(outcomes[c]) >= i
              /\ outcomes[c][i] = [headers |-> called.result, transport |-> NoTransport]
              /\ Len(sent[c]) =
                    Cardinality({j \in 1..Len(provider_calls[c]) :
                                    IsOk(provider_calls[c][j].result)})
              /\ ended_call => result[c] = Err(auth_error)
              /\ ended_call <=> ~next_delay(retry_policy, i, auth_error)

C12_Witness ==
    \E c \in Calls :
        /\ Len(provider_calls[c]) = 2
        /\ \A i \in 1..2 : IsErr(provider_calls[c][i].result)
        /\ retry_policy.max_attempts = 2
        /\ Returned(c)
        /\ sent[c] = <<>>
        /\ result[c] = Err(AuthError(provider_calls[c][2].result.error))

\* C13: for every operation, an attempt that received a 2xx response whose
\* body does not decode is the last attempt of its call: no further attempt
\* is started after it and the call returns the decode error.
C13_DecodeFailureIsTerminal ==
    \A c \in Calls : \A i \in 1..Len(outcomes[c]) :
        (Is2xx(outcomes[c][i]) /\ ~Decodable(outcomes[c][i])) =>
            /\ attempts_started[c] = i
            /\ pc[c] = "returned"
            /\ result[c] = decode(op[c], outcomes[c][i].transport.payload)

\* The get_headers call of the attempt that issued the j-th transport
\* request of call c: the j-th call that returned Ok.
CallBehind(c, j) ==
    LET i == CHOOSE k \in 1..Len(provider_calls[c]) :
                 /\ IsOk(provider_calls[c][k].result)
                 /\ Cardinality({m \in 1..k : IsOk(provider_calls[c][m].result)}) = j
    IN  provider_calls[c][i]

\* C14: the header provider is called once in every attempt, before the
\* attempt's transport request and on the serialized request; the headers
\* of a transport request are the ones that same attempt's call returned,
\* so with the signature provider each request carries the token of the
\* clock reading of its own attempt, and a retry made after the clock has
\* advanced carries a later timestamp.
C14_HeadersObtainedPerAttempt ==
    \A c \in Calls :
        LET calls == provider_calls[c]
            succeeded == {i \in 1..Len(calls) : IsOk(calls[i].result)}
        IN  /\ Len(calls) = attempts_started[c] - (IF pc[c] = "get_headers" THEN 1 ELSE 0)
            /\ \A i \in 1..Len(calls) : calls[i].request_body = encode_to_vec(request[c])
            /\ Len(sent[c]) = Cardinality(succeeded)
            /\ \A j \in 1..Len(sent[c]) :
                  LET returned == CallBehind(c, j).result.value
                      carried == sent[c][j].headers
                  IN  /\ DOMAIN carried = DOMAIN returned \cup {CONTENT_TYPE}
                      /\ \A name \in DOMAIN returned : carried[name] = returned[name]
                      /\ header_provider.kind = "SigsAuthProvider" =>
                            /\ carried[AUTHORIZATION].kind = "token"
                            /\ IsDecimalOf(TimestampPart(carried[AUTHORIZATION]),
                                           CallBehind(c, j).at)
            /\ \A j, k \in 1..Len(sent[c]) :
                  (/\ header_provider.kind = "SigsAuthProvider"
                   /\ j < k
                   /\ CallBehind(c, j).at < CallBehind(c, k).at) =>
                      DecimalValue(TimestampPart(sent[c][j].headers[AUTHORIZATION]))
                          < DecimalValue(TimestampPart(sent[c][k].headers[AUTHORIZATION]))

C14_Witness ==
    \E c \in Calls :
        /\ header_provider.kind = "SigsAuthProvider"
        /\ Len(sent[c]) = 2
        /\ provider_calls[c][1].at < provider_calls[c][2].at
        /\ sent[c][1].headers[AUTHORIZATION] # sent[c][2].headers[AUTHORIZATION]
        /\ sent[c][1].body = sent[c][2].body

(***************************************************************************)
(* The classification of post_request on its own: it is applied to a       *)
(* response of any status, with any body, for any operation.               *)
(***************************************************************************)
StatusCodes == {100, 199, 200, 204, 299, 300, 301, 404, 500, 503}

\* post_request classifies the response it received for operation o.
ClassifyResponse(o, response) ==
    /\ applied' = {[response |-> response,
                    op |-> o,
                    result |-> Classify(o, response),
                    fn |-> "classify"]}
    /\ UNCHANGED <<client_fields, now, callers, pc, op, request, attempts_made,
                   attempts_started, headers, http_request, sent, outcomes, result,
                   returned_headers, rand_values, request_id, provider_calls>>

ClassifySteps ==
    \E o \in Ops, s \in StatusCodes, p \in Payloads : ClassifyResponse(o, Response(s, p))

ClassifySpec == InitPure /\ [][ClassifySteps]_vars

Classified == {a \in applied : a.fn = "classify"}

\* C15: the status alone decides: a response with 200 <= status <= 299 is
\* decoded and never yields a status-coded error; a response with any other
\* status, 199 and 300 included, yields the status-coded error made of that
\* status and the raw payload, and its payload is not decoded.
C15_StatusAloneClassifies ==
    \A a \in Classified :
        LET status == a.response.status_code
            decoded == decode(a.op, a.response.payload)
        IN  /\ (200 <= status /\ status <= 299) =>
                  /\ a.result = decoded
                  /\ IsErr(a.result) => a.result.error.kind # "StatusError"
            /\ ~(200 <= status /\ status <= 299) =>
                  /\ a.result = Err([kind |-> "StatusError",
                                     payload |-> a.response.payload,
                                     status_code |-> status])
                  /\ a.result # decoded

C15_Witness ==
    \E a \in Classified :
        /\ a.response.status_code = 300
        /\ IsOk(decode(a.op, a.response.payload))
        /\ IsErr(a.result)

(***************************************************************************)
(* Two runs of a call: callers 1 and 2 each invoke the client once, and    *)
(* rand::random() gives each run an identifier of its own.                 *)
(***************************************************************************)
Runs == {1, 2}

InitTwoRuns ==
    /\ \E v \in ConcurrentClients : InitClient(v)
    /\ callers = [c \in Calls |-> IF c \in Runs THEN ConcurrentInvocations ELSE {}]
    /\ rand_values = RequestIds
    /\ InitCalls

SpecTwoRuns == InitTwoRuns /\ [][CallSteps]_vars

\* Runs c and d were given the same call and have received the same
\* outcomes up to the same point.
SameRunSoFar(c, d) ==
    /\ pc[c] # "idle" /\ pc[d] # "idle"
    /\ op[c] = op[d]
    /\ request[c] = request[d]
    /\ outcomes[c] = outcomes[d]
    /\ pc[c] = pc[d]

\* C16: the correlation identifier is not sent and changes nothing: two
\* runs of the same call that received the same outcomes issue the same
\* transport requests, make the same attempts and return the same result,
\* whether their identifiers are equal or not.
C16_RequestIdChangesNothing ==
    \A c, d \in Runs :
        SameRunSoFar(c, d) =>
            /\ sent[c] = sent[d]
            /\ http_request[c] = http_request[d]
            /\ attempts_started[c] = attempts_started[d]
            /\ attempts_made[c] = attempts_made[d]
            /\ provider_calls[c] = provider_calls[d]
            /\ result[c] = result[d]

C16_Witness ==
    \E c, d \in Runs :
        /\ SameRunSoFar(c, d)
        /\ request_id[c] # request_id[d]
        /\ Returned(c)
        /\ Len(sent[c]) = 2
        /\ sent[c] = sent[d]
        /\ result[c] = result[d]

\* C17: every attempt of a call posts to the endpoint of its operation
\* under the base URL (getObject, putObjects, deleteObject,
\* listKeyVersions) with the serialization of the caller's request as body,
\* so all attempts of a call send the same URL and the same bytes; the
\* caller's request record is not changed while the call runs.
C17_SameUrlAndBodyEveryAttempt ==
    /\ [](\A c \in Calls : \A i \in 1..Len(sent[c]) :
            /\ sent[c][i].url.base = base_url
            /\ op[c] = "get_object" => sent[c][i].url.path = "getObject"
            /\ op[c] = "put_object" => sent[c][i].url.path = "putObjects"
            /\ op[c] = "delete_object" => sent[c][i].url.path = "deleteObject"
            /\ op[c] = "list_key_versions" => sent[c][i].url.path = "listKeyVersions"
            /\ sent[c][i].body = [encoding |-> "protobuf", of |-> request[c]]
            /\ sent[c][i].url = sent[c][1].url
            /\ sent[c][i].body = sent[c][1].body)
    /\ [][\A c \in Calls : pc[c] # "idle" => request'[c] = request[c]]_vars

C17_Witness ==
    \E c \in Calls :
        /\ op[c] = "put_object"
        /\ Len(sent[c]) = 3
        /\ \A i \in 1..3 : sent[c][i].url.path = "putObjects"
        /\ sent[c][3].body.of = request[c]
        /\ Returned(c)

(***************************************************************************)
(* KeyValueVecKeyPrinter (util/mod.rs), which put_object uses to trace the *)
(* keys of a request.  What fmt writes is the sequence of the strings      *)
(* handed to the formatter, in order.                                      *)
(***************************************************************************)
ItemKeys == {"a", "b", "c"}
ItemValues == {"secret-1", "secret-2"}
\* types::KeyValue.
KeyValues == {[value |-> v, key |-> k, version |-> 1] : k \in ItemKeys, v \in ItemValues}
RECURSIVE SeqsUpTo(_, _)
SeqsUpTo(S, n) ==
    IF n = 0 THEN {<<>>}
    ELSE LET shorter == SeqsUpTo(S, n - 1)
         IN  shorter \cup {Append(s, x) : s \in {t \in shorter : Len(t) = n - 1}, x \in S}
ItemVecs == SeqsUpTo(KeyValues, MaxItems)

\* Mutant of fmt: the separator follows every key, the last one too.
RECURSIVE WriteKeysAllSeparated(_, _)
WriteKeysAllSeparated(items, i) ==
    IF i >= Len(items) THEN <<>>
    ELSE <<items[i + 1].key, ", ">> \o WriteKeysAllSeparated(items, i + 1)

\* The loop of fmt from index i on: `for (i, k) in self.0.iter().enumerate()`.
RECURSIVE WriteKeys(_, _)
WriteKeys(items, i) ==
    IF i >= Len(items) THEN <<>>
    ELSE (IF i = Len(items) - 1
          THEN <<items[i + 1].key>>
          ELSE <<items[i + 1].key, ", ">>) \o WriteKeys(items, i + 1)

\* <KeyValueVecKeyPrinter as Display>::fmt.
fmt(items) == Ok(<<"[">> \o WriteKeys(items, 0) \o <<"]">>)

\* format!("{}", KeyValueVecKeyPrinter(&items)).
FormatKeys(items) ==
    /\ applied' = {[result |-> fmt(items), fn |-> "fmt", items |-> items]}
    /\ UNCHANGED <<client_fields, now, callers, pc, op, request, attempts_made,
                   attempts_started, headers, http_request, sent, outcomes, result,
                   returned_headers, rand_values, request_id, provider_calls>>

PrinterSteps == \E items \in ItemVecs : FormatKeys(items)

PrinterSpec == InitPure /\ [][PrinterSteps]_vars

Printed == {a \in applied : a.fn = "fmt"}

\* C19: for every sequence of items, the empty one and those of one item
\* included, fmt completes and writes "[", then the keys in order with
\* ", " between two keys and nothing after the last, then "]"; for the
\* empty sequence that is "[]"; no value and no version is written.
C19_PrinterWritesKeysOnly ==
    \A a \in Printed :
        LET n == Len(a.items)
            out == a.result.value
        IN  /\ IsOk(a.result)
            /\ Len(out) = IF n = 0 THEN 2 ELSE 2 * n + 1
            /\ out[1] = "["
            /\ out[Len(out)] = "]"
            /\ \A i \in 1..n : out[2 * i] = a.items[i].key
            /\ \A i \in 1..(n - 1) : out[2 * i + 1] = ", "
            /\ \A j \in 1..Len(out) : \A i \in 1..n : out[j] # a.items[i].value

C19_Witness ==
    \E a \in Printed : a.items = <<>> /\ a.result = Ok(<<"[", "]">>)

====
